---- MODULE Spec2Model ----
(***************************************************************************)
(* TCP header decoder (main.go): a Packet holds one Go byte slice, Header, *)
(* and ten accessors compute the header fields from it on demand.          *)
(*                                                                         *)
(* A Go slice is modelled by the part of its backing array that starts at  *)
(* the slice's first element (data, of length cap) and by its length       *)
(* (len <= cap).  A slice expression s[lo:hi] panics iff hi > cap(s); an   *)
(* index or a slice of a string panics iff it passes the string's length.  *)
(* Strings are sequences of the one-character strings "0" and "1".         *)
(***************************************************************************)
EXTENDS Integers, Sequences, FiniteSets, TLC

VARIABLES Header, initial, first, last

vars == <<Header, initial, first, last>>

----------------------------------------------------------------------------
(* Bounds of the model *)

\* number of readers that call accessors on the one Packet
NumReaders == 2
\* shortest buffer is HeaderLen - MaxShort bytes long
MaxShort == 8
\* longest buffer carries MaxOptions bytes after the fixed header
MaxOptions == 1
\* at most MaxDistinct different accessors are called in one run
MaxDistinct == 2

\* size of the fixed part of a TCP header (the last accessor reads [18:20])
HeaderLen == 20

Byte == 0..255
Readers == 1..NumReaders

FieldAccessors == {"SourcePort", "DestinationPort", "SequenceNumber", "AckNumber",
                   "Window", "Checksum", "UrgentPointer"}
BitAccessors == {"DO", "RSV", "Flags"}
Accessors == FieldAccessors \cup BitAccessors

----------------------------------------------------------------------------
(* Outcomes of a call *)

\* a call that returns v
Value(v) == [kind |-> "value", val |-> v]
\* a call that ends in a runtime panic (slice bounds out of range); val is
\* the zero value of the result type and carries no information
Panic(zero) == [kind |-> "panic", val |-> zero]
\* no call yet
NotCalled == [kind |-> "none", val |-> 0]

NoFlags == [SYN |-> FALSE, ACK |-> FALSE, RST |-> FALSE,
            FIN |-> FALSE, PSH |-> FALSE, URG |-> FALSE]

----------------------------------------------------------------------------
(* Go slices and strings *)

Cap(s) == Len(s.data)

\* s[lo:hi] on a byte slice is legal iff 0 <= lo <= hi <= cap(s)
SliceOK(s, lo, hi) == 0 <= lo /\ lo <= hi /\ hi <= Cap(s)

\* the bytes of s[lo:hi] (0-based, hi exclusive)
GoSlice(s, lo, hi) == SubSeq(s.data, lo + 1, hi)

\* str[lo:hi] on a string is legal iff hi <= len(str)
StrSliceOK(str, lo, hi) == 0 <= lo /\ lo <= hi /\ hi <= Len(str)

StrSlice(str, lo, hi) == SubSeq(str, lo + 1, hi)

----------------------------------------------------------------------------
(* Library functions the accessors call *)

\* binary.BigEndian.Uint16(b) = uint16(b[1]) | uint16(b[0])<<8
BigEndianUint16(b) == b[2] + 256 * b[1]

\* binary.BigEndian.Uint32(b) = uint32(b[3]) | uint32(b[2])<<8 |
\* uint32(b[1])<<16 | uint32(b[0])<<24.  The model checker's integers are
\* signed 32-bit, so a uint32 is kept as its two 16-bit halves <<hi, lo>>,
\* which stand for hi * 65536 + lo.
BigEndianUint32(b) == <<b[2] + 256 * b[1], b[4] + 256 * b[3]>>

\* the binary digits of v, most significant first, none for 0
RECURSIVE Digits(_)
Digits(v) == IF v = 0 THEN <<>>
             ELSE Append(Digits(v \div 2), IF v % 2 = 1 THEN "1" ELSE "0")

Zeros(n) == [i \in 1..n |-> "0"]

\* fmt.Sprintf("%.<prec>b", v): the binary digits of v, zero-padded on the
\* left to at least prec digits
SprintfPrecB(prec, v) == LET d == Digits(v)
                         IN  IF Len(d) >= prec THEN d ELSE Zeros(prec - Len(d)) \o d

\* fmt.Sprintf("%b", v): as above, with at least one digit
SprintfB(v) == SprintfPrecB(1, v)

RECURSIVE BinValue(_)
BinValue(str) == IF str = <<>> THEN 0
                 ELSE 2 * BinValue(SubSeq(str, 1, Len(str) - 1))
                      + (IF str[Len(str)] = "1" THEN 1 ELSE 0)

Pow2(n) == 2 ^ n

\* strconv.ParseInt(str, 2, bitSize) with the error dropped: the value of
\* the digits, or the largest bitSize-bit signed integer if it does not fit
ParseInt(str, bitSize) == LET v == BinValue(str)
                              max == Pow2(bitSize - 1) - 1
                          IN  IF v > max THEN max ELSE v

\* the conversion uint8(x) of a non-negative x
Uint8(x) == x % 256

----------------------------------------------------------------------------
(* The accessors of Packet, as functions of the Header slice *)

SourcePort(h) ==
    IF SliceOK(h, 0, 2) THEN Value(BigEndianUint16(GoSlice(h, 0, 2))) ELSE Panic(0)

\* faulty variant: reads the slice of SourcePort
DestinationPort_ReadsSource(h) ==
    IF SliceOK(h, 0, 2) THEN Value(BigEndianUint16(GoSlice(h, 0, 2))) ELSE Panic(0)

DestinationPort(h) ==
    IF SliceOK(h, 2, 4) THEN Value(BigEndianUint16(GoSlice(h, 2, 4))) ELSE Panic(0)

SequenceNumber(h) ==
    IF SliceOK(h, 4, 8) THEN Value(BigEndianUint32(GoSlice(h, 4, 8))) ELSE Panic(<<0, 0>>)

\* faulty variant: reads the slice of SequenceNumber
AckNumber_ReadsSeq(h) ==
    IF SliceOK(h, 4, 8) THEN Value(BigEndianUint32(GoSlice(h, 4, 8))) ELSE Panic(<<0, 0>>)

AckNumber(h) ==
    IF SliceOK(h, 8, 12) THEN Value(BigEndianUint32(GoSlice(h, 8, 12))) ELSE Panic(<<0, 0>>)

\* faulty variant: parses the nibble with bitSize 4, as a 4-bit signed value
DO_BitSize4(h) ==
    IF ~SliceOK(h, 12, 14) THEN Panic(0)
    ELSE LET do == SprintfB(GoSlice(h, 12, 14)[1])
         IN  IF ~StrSliceOK(do, 0, 4) THEN Panic(0)
             ELSE Value(Uint8(ParseInt(StrSlice(do, 0, 4), 4)))

DO(h) ==
    IF ~SliceOK(h, 12, 14) THEN Panic(0)
    ELSE LET do == SprintfB(GoSlice(h, 12, 14)[1])
         IN  IF ~StrSliceOK(do, 0, 4) THEN Panic(0)
             ELSE Value(Uint8(ParseInt(StrSlice(do, 0, 4), 5)))

RSV(h) ==
    IF ~SliceOK(h, 12, 14) THEN Panic(0)
    ELSE LET rs == SprintfB(GoSlice(h, 12, 14)[1])
         IN  IF ~StrSliceOK(rs, 4, 7) THEN Panic(0)
             ELSE Value(Uint8(ParseInt(StrSlice(rs, 4, 7), 4)))

Flags(h) ==
    IF ~SliceOK(h, 12, 14) THEN Panic(NoFlags)
    ELSE LET fg1 == SprintfPrecB(1, GoSlice(h, 12, 14)[1])
             fg2 == SprintfPrecB(8, GoSlice(h, 12, 14)[2])
         IN  IF ~StrSliceOK(fg1, 7, 8) THEN Panic(NoFlags)
             ELSE Value([SYN |-> StrSlice(fg1, 7, 8) # <<"0">>,
                         ACK |-> StrSlice(fg2, 0, 1) # <<"0">>,
                         RST |-> StrSlice(fg2, 1, 2) # <<"0">>,
                         FIN |-> StrSlice(fg2, 2, 3) # <<"0">>,
                         PSH |-> StrSlice(fg2, 3, 4) # <<"0">>,
                         URG |-> StrSlice(fg2, 4, 5) # <<"0">>])

Window(h) ==
    IF SliceOK(h, 14, 16) THEN Value(BigEndianUint16(GoSlice(h, 14, 16))) ELSE Panic(0)

Checksum(h) ==
    IF SliceOK(h, 16, 18) THEN Value(BigEndianUint16(GoSlice(h, 16, 18))) ELSE Panic(0)

UrgentPointer(h) ==
    IF SliceOK(h, 18, 20) THEN Value(BigEndianUint16(GoSlice(h, 18, 20))) ELSE Panic(0)

----------------------------------------------------------------------------
(* Buffers *)

\* the header literal of main
SampleHeader == <<183, 78, 1, 187, 177, 70, 164, 97, 0, 0, 0, 0,
                  160, 2, 250, 240, 155, 186, 0, 0>>

\* arr with the bytes at 0-based offset off replaced by bs
Patch(arr, off, bs) ==
    [i \in 1..Len(arr) |-> IF i > off /\ i <= off + Len(bs) THEN bs[i - off] ELSE arr[i]]

\* a Packet whose Header is the first n bytes of a buffer of c bytes
MakePacket(arr, n, c) == [data |-> SubSeq(arr, 1, c), len |-> n]

Max(a, b) == IF a >= b THEN a ELSE b

\* option bytes that follow the fixed header in a longer buffer (NOP)
Options(n) == [i \in 1..n |-> 1]

\* the sample, and a header without options (data offset 5, SYN and ACK as
\* on the wire)
Contents == {SampleHeader, Patch(SampleHeader, 12, <<80, 18>>)}

\* the buffers of the main specification: of HeaderLen - MaxShort up to
\* HeaderLen + MaxOptions bytes, either allocated at their length or the
\* prefix buf[:n] of a buffer that holds a whole header
Packets ==
    UNION { UNION { { MakePacket(c \o Options(MaxOptions), n, cp) :
                      cp \in {n, Max(n, HeaderLen)} } :
                    n \in (HeaderLen - MaxShort)..(HeaderLen + MaxOptions) } :
            c \in Contents }

\* values of byte 13 whose three low bits, which no accessor decodes, are 0
FlagBytes == { 8 * k : k \in 0..31 }

\* values of byte 12 that are combined with every value of byte 13: SYN
\* alone, a header without options, the sample, all bits set
ProbeByte12 == {1, 80, 160, 255}

\* buffers of exactly HeaderLen bytes: every value of byte 12 with every
\* combination of the five flags of byte 13, and every value of byte 13
\* with the probe values of byte 12
BitPackets ==
    { MakePacket(Patch(SampleHeader, 12, <<b12, b13>>), HeaderLen, HeaderLen) :
      b12 \in Byte, b13 \in FlagBytes }
    \cup
    { MakePacket(Patch(SampleHeader, 12, <<b12, b13>>), HeaderLen, HeaderLen) :
      b12 \in ProbeByte12, b13 \in Byte }

ProbeBytes == {1, 128, 255}
Offsets16 == {0, 2, 14, 16, 18}
Offsets32 == {4, 8}

\* the sample with one multi-byte field overwritten by probe bytes
FieldPackets ==
    { MakePacket(Patch(SampleHeader, off, <<x, y>>), HeaderLen, HeaderLen) :
      off \in Offsets16, x \in ProbeBytes, y \in ProbeBytes }
    \cup
    { MakePacket(Patch(SampleHeader, off, <<w[1], w[2], w[3], w[4]>>), HeaderLen, HeaderLen) :
      off \in Offsets32, w \in [1..4 -> ProbeBytes] }

----------------------------------------------------------------------------
(* State machine: readers call accessors on one Packet *)

\* the latest call: its reader, accessor and outcome, whether the accessor
\* had been called before, and the reader of the call before it (0: none)
NoCall == [reader |-> 0, acc |-> "none", out |-> NotCalled, again |-> FALSE, prev |-> 0]

\* the state after construction of a Packet drawn from pkts
Start(pkts) ==
    /\ Header \in pkts
    /\ initial = Header
    /\ first = [a \in Accessors |-> NotCalled]
    /\ last = NoCall

Called(a) == first[a].kind # "none"

\* reader r has called accessor a, which ended with out; the accessors
\* assign to nothing but their locals
Return(r, a, out) ==
    /\ Called(a) \/ Cardinality({x \in Accessors : Called(x)}) < MaxDistinct
    /\ last' = [reader |-> r, acc |-> a, out |-> out, again |-> Called(a),
                prev |-> last.reader]
    /\ first' = IF Called(a) THEN first ELSE [first EXCEPT ![a] = out]
    /\ UNCHANGED <<Header, initial>>

\* faulty variant: consumes the two bytes it has read (p.Header = p.Header[2:])
CallSourcePort_Consuming(r) ==
    /\ Called("SourcePort") \/ Cardinality({x \in Accessors : Called(x)}) < MaxDistinct
    /\ last' = [reader |-> r, acc |-> "SourcePort", out |-> SourcePort(Header),
                again |-> Called("SourcePort"), prev |-> last.reader]
    /\ first' = IF Called("SourcePort") THEN first
                ELSE [first EXCEPT !["SourcePort"] = SourcePort(Header)]
    /\ Header' = IF SliceOK(Header, 0, 2)
                 THEN [data |-> SubSeq(Header.data, 3, Cap(Header)),
                       len |-> Max(Header.len - 2, 0)]
                 ELSE Header
    /\ UNCHANGED initial

CallSourcePort(r) == Return(r, "SourcePort", SourcePort(Header))

CallDestinationPort(r) == Return(r, "DestinationPort", DestinationPort(Header))

CallSequenceNumber(r) == Return(r, "SequenceNumber", SequenceNumber(Header))

CallAckNumber(r) == Return(r, "AckNumber", AckNumber(Header))

CallDO(r) == Return(r, "DO", DO(Header))

CallRSV(r) == Return(r, "RSV", RSV(Header))

CallFlags(r) == Return(r, "Flags", Flags(Header))

CallWindow(r) == Return(r, "Window", Window(Header))

CallChecksum(r) == Return(r, "Checksum", Checksum(Header))

CallUrgentPointer(r) == Return(r, "UrgentPointer", UrgentPointer(Header))

\* main specification: buffers of every length, all accessors, all readers
Init == Start(Packets)

Next ==
    \E r \in Readers :
        \/ CallSourcePort(r)
        \/ CallDestinationPort(r)
        \/ CallSequenceNumber(r)
        \/ CallAckNumber(r)
        \/ CallDO(r)
        \/ CallRSV(r)
        \/ CallFlags(r)
        \/ CallWindow(r)
        \/ CallChecksum(r)
        \/ CallUrgentPointer(r)

Spec == Init /\ [][Next]_vars

\* the bit-field accessors on every value of bytes 12 and 13
InitBits == Start(BitPackets)

NextBits == CallDO(1) \/ CallRSV(1) \/ CallFlags(1)

SpecBits == InitBits /\ [][NextBits]_vars

\* the multi-byte accessors on probe values of every field
InitFields == Start(FieldPackets)

NextFields ==
    \/ CallSourcePort(1)
    \/ CallDestinationPort(1)
    \/ CallSequenceNumber(1)
    \/ CallAckNumber(1)
    \/ CallWindow(1)
    \/ CallChecksum(1)
    \/ CallUrgentPointer(1)

SpecFields == InitFields /\ [][NextFields]_vars

----------------------------------------------------------------------------
(* What the accessors are meant to return, in arithmetic on the bytes *)

\* byte i of the buffer, 0-based
B(i) == Header.data[i + 1]

\* the buffer holds a whole fixed header
Long == Header.len >= HeaderLen

\* bit k of v, bit 0 the least significant
BitSet(v, k) == (v \div Pow2(k)) % 2 = 1

TopNibble(b12) == b12 \div 16

ReservedBits(b12) == (b12 \div 2) % 8

FlagBits(b12, b13) == [SYN |-> BitSet(b12, 0), ACK |-> BitSet(b13, 7),
                       RST |-> BitSet(b13, 6), FIN |-> BitSet(b13, 5),
                       PSH |-> BitSet(b13, 4), URG |-> BitSet(b13, 3)]

RawField(a) == CASE a = "DO" -> TopNibble(B(12))
                 [] a = "RSV" -> ReservedBits(B(12))
                 [] a = "Flags" -> FlagBits(B(12), B(13))

\* the inverse bit-packing of bytes 12 and 13
Num(flag) == IF flag THEN 1 ELSE 0

Pack12(do, rsv, syn) == 16 * do + 2 * rsv + Num(syn)

Pack13(f) == 128 * Num(f.ACK) + 64 * Num(f.RST) + 32 * Num(f.FIN)
             + 16 * Num(f.PSH) + 8 * Num(f.URG)

\* the four bytes of a uint32 <<hi, lo>>, most significant first
BytesOf(u) == <<u[1] \div 256, u[1] % 256, u[2] \div 256, u[2] % 256>>

\* a uint32 <<hi, lo>> in decimal, as <<v \div 100000, v % 100000>>, where
\* v = hi * 65536 + lo and 2^24 = 167 * 100000 + 77216
Decimal(u) == LET low == (u[1] \div 256) * 77216 + (u[1] % 256) * 65536 + u[2]
              IN  <<(u[1] \div 256) * 167 + low \div 100000, low % 100000>>

\* the offset of each 16-bit field
Offset16(a) == CASE a = "SourcePort" -> 0
                 [] a = "DestinationPort" -> 2
                 [] a = "Window" -> 14
                 [] a = "Checksum" -> 16
                 [] a = "UrgentPointer" -> 18

\* the Packet of main
SamplePacket == MakePacket(SampleHeader, HeaderLen, HeaderLen)

----------------------------------------------------------------------------
(* Claims *)

\* C1: on a header of at least 20 bytes DO() returns the top 4 bits of
\* byte 12 (byte12 div 16), a value in 0..15, for every value of byte 12.
C1_DO_TopNibble ==
    (Long /\ Called("DO")) =>
        /\ first["DO"] = Value(TopNibble(B(12)))
        /\ first["DO"].val \in 0..15

\* C2: on a header of at least 20 bytes Flags() returns SYN = the least
\* significant bit of byte 12 and ACK, RST, FIN, PSH, URG = the bits 0x80,
\* 0x40, 0x20, 0x10, 0x08 of byte 13, for every value of bytes 12 and 13.
C2_Flags_Bits ==
    (Long /\ Called("Flags")) => first["Flags"] = Value(FlagBits(B(12), B(13)))

C4_BigEndianFields ==
    Long =>
        /\ \A a \in FieldAccessors \ {"SequenceNumber", "AckNumber"} :
              Called(a) =>
                  first[a] = Value(256 * B(Offset16(a)) + B(Offset16(a) + 1))
        /\ Called("SequenceNumber") =>
              /\ first["SequenceNumber"].kind = "value"
              /\ BytesOf(first["SequenceNumber"].val) = <<B(4), B(5), B(6), B(7)>>
        /\ Called("AckNumber") =>
              /\ first["AckNumber"].kind = "value"
              /\ BytesOf(first["AckNumber"].val) = <<B(8), B(9), B(10), B(11)>>

\* a 32-bit field holding three different probe bytes and a 16-bit field
\* have been decoded
C4_Witness ==
    /\ Long
    /\ <<B(4), B(5), B(6), B(7)>> = <<255, 128, 1, 128>>
    /\ first["SequenceNumber"] = Value(<<65408, 384>>)
    /\ first["Window"] = Value(64240)

\* C5: a buffer of exactly 20 bytes decodes successfully with every
\* accessor, and on a buffer of 19 or fewer bytes every accessor fails with
\* an error value (BufferTooShort), neither a panic nor a field value.
C5_BufferTooShort ==
    \A a \in Accessors :
        Called(a) =>
            /\ Header.len = HeaderLen => first[a].kind = "value"
            /\ Header.len < HeaderLen => first[a].kind = "error"

\* C6: a malformed but decodable header is never an error: on every header
\* of at least 20 bytes, whatever its Reserved bits and DataOffset, DO(),
\* RSV() and Flags() return, and return the raw bit-fields of bytes 12, 13.
C6_MalformedDecodes ==
    Long =>
        \A a \in BitAccessors :
            Called(a) => (first[a].kind = "value" /\ first[a].val = RawField(a))

\* C7: round trip: if byte 12 = 16*DataOffset + 2*Reserved + SYN and byte 13
\* = 128*ACK + 64*RST + 32*FIN + 16*PSH + 8*URG for some DataOffset in
\* 0..15, Reserved in 0..7 and six flags, then DO(), RSV() and Flags()
\* return exactly that DataOffset, Reserved and flags.
C7_RoundTrip ==
    Long =>
        \A do \in 0..15, rsv \in 0..7, syn \in BOOLEAN :
            B(12) = Pack12(do, rsv, syn) =>
                /\ Called("DO") => first["DO"] = Value(do)
                /\ Called("RSV") => first["RSV"] = Value(rsv)
                /\ \A f \in [{"ACK", "RST", "FIN", "PSH", "URG"} -> BOOLEAN] :
                      (B(13) = Pack13(f) /\ Called("Flags")) =>
                          first["Flags"] =
                              Value([SYN |-> syn, ACK |-> f.ACK, RST |-> f.RST,
                                     FIN |-> f.FIN, PSH |-> f.PSH, URG |-> f.URG])

\* what every accessor but SequenceNumber returns on the sample header
SampleOthers ==
    /\ Called("SourcePort") => first["SourcePort"] = Value(46926)
    /\ Called("DestinationPort") => first["DestinationPort"] = Value(443)
    /\ Called("AckNumber") =>
          (first["AckNumber"].kind = "value"
           /\ Decimal(first["AckNumber"].val) = <<0, 0>>)
    /\ Called("DO") => first["DO"] = Value(10)
    /\ Called("RSV") => first["RSV"] = Value(0)
    /\ Called("Flags") => first["Flags"] = Value(NoFlags)
    /\ Called("Window") => first["Window"] = Value(64240)
    /\ Called("Checksum") => first["Checksum"] = Value(39866)
    /\ Called("UrgentPointer") => first["UrgentPointer"] = Value(0)

\* C8 as stated: the sample header decodes to SourcePort=46926,
\* DestinationPort=443, SequenceNumber=2972860513, AckNumber=0,
\* DataOffset=10, Reserved=0, no flag set, Window=64240, Checksum=39866,
\* UrgentPointer=0.
C8_SampleDecode_AsStated ==
    Header = SamplePacket =>
        /\ SampleOthers
        /\ Called("SequenceNumber") =>
              (first["SequenceNumber"].kind = "value"
               /\ Decimal(first["SequenceNumber"].val) = <<29728, 60513>>)

\* C8, amended: the same, with SequenceNumber=2974196833 (0xb146a461).
C8_SampleDecode ==
    Header = SamplePacket =>
        /\ SampleOthers
        /\ Called("SequenceNumber") =>
              (first["SequenceNumber"].kind = "value"
               /\ Decimal(first["SequenceNumber"].val) = <<29741, 96833>>)

\* the sample header, with SequenceNumber and DO decoded
C8_Witness ==
    /\ Header = SamplePacket
    /\ Called("SequenceNumber")
    /\ first["DO"] = Value(10)

\* C9: no accessor mutates the buffer or keeps hidden state: after any
\* sequence of calls by any readers Header is as constructed, and a call
\* of an accessor ends as the first call of that accessor did.
C9_NoMutation ==
    /\ Header = initial
    /\ last.acc # "none" => last.out = first[last.acc]

\* an accessor has been called again, after a call by another reader, once
\* two different accessors had been called
C9_Witness ==
    /\ last.again
    /\ last.prev # 0
    /\ last.prev # last.reader
    /\ Cardinality({a \in Accessors : Called(a)}) >= 2

\* C10: on a header of at least 20 bytes whose byte 12 is >= 0x80 the
\* unpadded binary rendering of byte 12 has exactly 8 digits, and DO(),
\* RSV() and Flags() return byte12 div 16, (byte12 div 2) mod 8, and SYN =
\* (byte12 mod 2 = 1) with the five top bits of byte 13.
C10_TopBitSet ==
    (Long /\ B(12) >= 128) =>
        /\ Len(SprintfB(B(12))) = 8
        /\ Called("DO") => first["DO"] = Value(B(12) \div 16)
        /\ Called("RSV") => first["RSV"] = Value((B(12) \div 2) % 8)
        /\ Called("Flags") =>
              (/\ first["Flags"].kind = "value"
               /\ first["Flags"].val.SYN = (B(12) % 2 = 1)
               /\ first["Flags"].val.ACK = (B(13) \div 128 = 1)
               /\ first["Flags"].val.RST = ((B(13) \div 64) % 2 = 1)
               /\ first["Flags"].val.FIN = ((B(13) \div 32) % 2 = 1)
               /\ first["Flags"].val.PSH = ((B(13) \div 16) % 2 = 1)
               /\ first["Flags"].val.URG = ((B(13) \div 8) % 2 = 1))

\* RSV() and Flags() have returned on a header with data offset 15, and
\* reserved bits and all six flags set
C10_Witness ==
    /\ Long
    /\ B(12) = 255
    /\ B(13) = 248
    /\ first["RSV"] = Value(7)
    /\ first["Flags"] = Value([SYN |-> TRUE, ACK |-> TRUE, RST |-> TRUE,
                               FIN |-> TRUE, PSH |-> TRUE, URG |-> TRUE])

====
